---- MODULE Spec2Model ----
(***************************************************************************)
(* A model of indexer/crud.py: the batch ingestion handler                 *)
(* insert_by_seqno_core with its message-graph resolver, the parse outbox  *)
(* queue (get_outbox_items, get_outbox_items_by_min_seqno,                 *)
(* remove_outbox_item, postpone_outbox_item) and the account path          *)
(* (insert_account, reset_account).                                        *)
(*                                                                         *)
(* The relational tables are sets of rows.  Primary keys are opaque        *)
(* serial numbers: a table whose rows are never deleted hands out          *)
(* Cardinality + 1, the outbox (whose rows are deleted) keeps a sequence   *)
(* counter.  A rolled-back transaction leaves no visible id behind, so the *)
(* gaps a real sequence would keep are not modelled.                       *)
(***************************************************************************)
EXTENDS Integers, Sequences, FiniteSets, TLC

VARIABLES
    block_t,            \* rows of Block
    block_headers_t,    \* rows of BlockHeader
    transaction_t,      \* rows of Transaction
    message_t,          \* rows of Message
    message_content_t,  \* rows of MessageContent
    accounts_t,         \* rows of KnownAccounts
    accounts_state_t,   \* rows of AccountState
    code_t,             \* rows of Code
    outbox_t,           \* rows of ParseOutbox
    outbox_seq,         \* last outbox_id handed out by the outbox primary key
    now,                \* int(datetime.today().timestamp())
    held,               \* outbox rows a consumer has read and still holds
    ingested,           \* the batches committed so far
    lastOp,             \* the last operation, its inputs and what it saw
    unit,               \* the unit of work a consumer took by minimal mc_seqno
    conn                \* the open transactions of the concurrent ingestion workers

vars == <<block_t, block_headers_t, transaction_t, message_t, message_content_t,
          accounts_t, accounts_state_t, code_t, outbox_t, outbox_seq, now, held,
          ingested, lastOp, unit, conn>>

tables == <<block_t, block_headers_t, transaction_t, message_t, message_content_t,
            accounts_t, accounts_state_t, code_t, outbox_t>>

(***************************************************************************)
(* Bounds of the model.                                                    *)
(***************************************************************************)
MaxGraphTx == 5     \* SpecGraph: Transaction rows in all
MaxGraphBatchTx == 3 \* SpecGraph: transactions of one batch
MaxBlockRows == 3   \* SpecBatch: Block rows in all
MaxBatches == 2     \* Spec: committed batches
MaxStates == 1      \* Spec: AccountState rows
MaxTime == 3        \* the clock runs 1..MaxTime
MaxDelay == 1       \* postpone delays 0..MaxDelay
MaxHeld == 2        \* outbox rows a consumer holds at a time
MaxUnitSeqno == 2   \* SpecUnit: masterchain seqnos 1..MaxUnitSeqno, in any order
MaxWorkerBatches == 3 \* SpecWorkers: batches begun in all
MaxWalkTx == 4      \* SpecWalk: Transaction rows in all
MaxWalkBatchTx == 2 \* SpecWalk: transactions of one batch

\* SQL NULL / Python None; ids, seqnos and times are all >= 1
Null == 0

PARSE_TYPE_MESSAGE == "MESSAGE"
PARSE_TYPE_ACCOUNT == "ACCOUNT"

Max(S) == CHOOSE x \in S : \A y \in S : y <= x
Min(S) == CHOOSE x \in S : \A y \in S : x <= y

(***************************************************************************)
(* Collaborators of crud.py (indexer/database.py, parser/, tonsdk): the    *)
(* decoded records the handler consumes and the row constructors it calls. *)
(***************************************************************************)

\* A decoded message: every field is a function of the content hash.
\* hash % 3 = 2 is a self-message, hash % 3 = 0 carries an unsupported payload.
RawMsg(h) ==
    [hash |-> h,
     source |-> IF h % 3 = 2 THEN "B" ELSE "A",
     destination |-> "B",
     op |-> IF h % 3 = 0 THEN "unknown" ELSE "known",
     body |-> <<"boc", h>>]

\* Message.raw_msg_to_dict
raw_msg_to_dict(raw) ==
    [hash |-> raw.hash, source |-> raw.source, destination |-> raw.destination,
     op |-> raw.op, in_tx_id |-> Null, out_tx_id |-> Null]

\* MessageContent.raw_msg_to_content_dict
raw_msg_to_content_dict(raw) == [body |-> raw.body]

\* parser.supported_messages.message_supported
message_supported(msg) == msg.op = "known"

\* Address(account).to_string(True, True, True): raw form to user-friendly form
Address_to_string(account) == account[2]

\* ParseOutbox.generate: a row without outbox_id; attempts is left NULL
ParseOutbox_generate(entity_type, entity_id, added_time, mc_seqno) ==
    [entity_type |-> entity_type, entity_id |-> entity_id,
     added_time |-> added_time, mc_seqno |-> mc_seqno, attempts |-> Null]

\* KnownAccounts.generate: a never-checked account
KnownAccounts_generate(address, mc_block_id, mc_seqno) ==
    [address |-> address, mc_block_id |-> mc_block_id, mc_seqno |-> mc_seqno,
     last_check_time |-> Null]

\* UniqueConstraint of Block: one row per (workchain, shard, seqno)
BlockUniqueViolated(rows, s_block) ==
    \E b \in rows : b.shard = s_block.shard /\ b.seqno = s_block.seqno

\* UniqueConstraint of ParseOutbox: one row per (entity_type, entity_id)
OutboxUniqueViolated(rows, item) ==
    \E o \in rows : o.entity_type = item.entity_type /\ o.entity_id = item.entity_id

\* settings.indexer.discover_accounts_enabled
discover_accounts_enabled == TRUE

SkipReasons == {"cskip_bad_state", "cskip_no_state", "cskip_no_gas"}

(***************************************************************************)
(* Python containers.  A dict of lists keyed by hash is kept as the        *)
(* sequence of its records in append order: its keys are the hashes in     *)
(* order of first occurrence, the list of a key the records of that hash.  *)
(***************************************************************************)
RECURSIVE KeysFrom(_, _, _)
KeysFrom(recs, i, acc) ==
    IF i > Len(recs) THEN acc
    ELSE KeysFrom(recs, i + 1,
                  IF \E k \in 1..Len(acc) : acc[k] = recs[i].hash
                  THEN acc ELSE Append(acc, recs[i].hash))

\* list(d.keys())
Keys(recs) == KeysFrom(recs, 1, <<>>)

KeySet(recs) == {recs[i].hash : i \in 1..Len(recs)}

\* d[h]
Group(recs, h) == SelectSeq(recs, LAMBDA m : m.hash = h)

\* d.pop(h) for every h of a set
PopAll(recs, hs) == SelectSeq(recs, LAMBDA m : m.hash \notin hs)

RECURSIVE FlattenFrom(_, _, _)
FlattenFrom(recs, keys, i) ==
    IF i > Len(keys) THEN <<>>
    ELSE Group(recs, keys[i]) \o FlattenFrom(recs, keys, i + 1)

\* [item for sublist in d.values() for item in sublist]
Flatten(recs) == FlattenFrom(recs, Keys(recs), 1)

(***************************************************************************)
(* insert_by_seqno_core.  The handler runs on a connection opened by       *)
(* engine.begin(): c holds the tables as the transaction sees them, the    *)
(* handler's local variables, and status ("ok" until something raises).    *)
(***************************************************************************)

\* the locals of lines 89-95 over the tables as they are at BEGIN
Begin(t) ==
    [block_t |-> t.block_t, block_headers_t |-> t.block_headers_t,
     transaction_t |-> t.transaction_t, message_t |-> t.message_t,
     message_content_t |-> t.message_content_t, accounts_t |-> t.accounts_t,
     outbox_t |-> t.outbox_t, outbox_seq |-> t.outbox_seq,
     mc_block_id |-> Null, shard_headers |-> <<>>,
     in_msgs_by_hash |-> <<>>, out_msgs_by_hash |-> <<>>,
     msg_contents_by_hash |-> <<>>, unique_addresses |-> {},
     msgs_to_insert |-> <<>>, msg_ids_to_parse |-> <<>>,
     status |-> "ok"]

\* msg_contents_by_hash[h] = content: the last record of a hash wins
PutContent(contents, h, content) ==
    Append(SelectSeq(contents, LAMBDA e : e.hash # h), [hash |-> h, content |-> content])

\* mutant: the content collected first is taken, whatever its hash
GetContent_First(contents, h) == contents[1].content

\* line 191: msg_contents_by_hash[msgs_to_insert[i]['hash']]
GetContent(contents, h) ==
    contents[CHOOSE i \in 1..Len(contents) : contents[i].hash = h].content

RECURSIVE OutMsgLoop(_, _, _, _)
\* lines 129-136: the outbound messages of one transaction
OutMsgLoop(c, out_msgs, k, tx_id) ==
    IF k > Len(out_msgs) THEN c
    ELSE LET out_msg_raw == RawMsg(out_msgs[k])
             out_msg == [raw_msg_to_dict(out_msg_raw) EXCEPT !.out_tx_id = tx_id,
                                                             !.in_tx_id = Null]
         IN OutMsgLoop([c EXCEPT
                 !.out_msgs_by_hash = Append(@, out_msg),
                 !.msg_contents_by_hash =
                     PutContent(@, out_msg.hash, raw_msg_to_content_dict(out_msg_raw))],
               out_msgs, k + 1, tx_id)

\* lines 111-136: one decoded transaction of a block
\* mutant: a transaction that did not decode is processed like any other
TxIsNone_Never(tx_raw) == FALSE

\* lines 111-112: raw_transaction_to_dict returned None
TxIsNone(tx_raw) == ~tx_raw.valid

\* lines 111-136
InsertTx(c, tx_raw, block_id) ==
    IF TxIsNone(tx_raw) THEN c      \* line 113: continue
    ELSE
    LET tx_id == Cardinality(c.transaction_t) + 1
        tx == [tx_id |-> tx_id, block_id |-> block_id, account |-> tx_raw.account,
               compute_skip_reason |-> tx_raw.compute_skip_reason]
        c1 == [c EXCEPT
                 !.transaction_t = @ \cup {tx},
                 !.unique_addresses =
                     IF tx.compute_skip_reason \notin SkipReasons
                     THEN @ \cup {Address_to_string(tx.account)} ELSE @]
        c2 == IF tx_raw.in_msg # Null
              THEN LET in_msg_raw == RawMsg(tx_raw.in_msg)
                       in_msg == [raw_msg_to_dict(in_msg_raw) EXCEPT !.in_tx_id = tx_id,
                                                                     !.out_tx_id = Null]
                   IN [c1 EXCEPT
                         !.in_msgs_by_hash = Append(@, in_msg),
                         !.msg_contents_by_hash =
                             PutContent(@, in_msg.hash, raw_msg_to_content_dict(in_msg_raw))]
              ELSE c1
    IN OutMsgLoop(c2, tx_raw.out_msgs, 1, tx_id)

RECURSIVE TxLoop(_, _, _, _)
\* line 110
TxLoop(c, txs_raw, j, block_id) ==
    IF j > Len(txs_raw) THEN c
    ELSE TxLoop(InsertTx(c, txs_raw[j], block_id), txs_raw, j + 1, block_id)

\* mutant: the block insert skips a conflicting row (ON CONFLICT DO NOTHING)
InsertBlockRaises_Never(rows, s_block) == FALSE

\* line 101: block_t.insert() is a plain INSERT, a unique violation raises
InsertBlockRaises(rows, s_block) == BlockUniqueViolated(rows, s_block)

\* mutant: the anchor follows the block inserted last
NextAnchor_Latest(mc_block_id, block_id) == block_id

\* lines 103-104: the first block_id of the batch becomes the anchor
NextAnchor(mc_block_id, block_id) ==
    IF mc_block_id = Null THEN block_id ELSE mc_block_id

RECURSIVE BlockLoop(_, _, _)
\* lines 97-136: blocks, their transactions and the messages of those
BlockLoop(c, blocks_raw, i) ==
    IF i > Len(blocks_raw) \/ c.status # "ok" THEN c
    ELSE
    LET block_raw == blocks_raw[i]
        block_id == Cardinality(c.block_t) + 1
        s_block == [block_id |-> block_id, shard |-> block_raw.shard,
                    seqno |-> block_raw.seqno,
                    masterchain_block_id |-> c.mc_block_id]
    IN IF InsertBlockRaises(c.block_t, s_block)
       THEN [c EXCEPT !.status = "IntegrityError"]
       ELSE LET s_header == [block_id |-> block_id, gen_utime |-> block_raw.gen_utime]
                c1 == [c EXCEPT
                         !.block_t = @ \cup {s_block},
                         !.mc_block_id = NextAnchor(@, block_id),
                         !.shard_headers = Append(@, s_header)]
            IN BlockLoop(TxLoop(c1, block_raw.txs, 1, block_id), blocks_raw, i + 1)

\* line 138
InsertHeaders(c) ==
    [c EXCEPT !.block_headers_t =
         @ \cup {c.shard_headers[i] : i \in 1..Len(c.shard_headers)}]

\* mutant: only the inbound side is asserted, the first outbound record is taken
PairingAsserts_InboundOnly(in_msgs, out_msgs, h) ==
    Len(Group(in_msgs, h)) = 1

\* lines 142 and 144: the two assertions of the intra-batch pairing
PairingAsserts(in_msgs, out_msgs, h) ==
    Len(Group(in_msgs, h)) = 1 /\ Len(Group(out_msgs, h)) = 1

\* lines 140-147: pair the inbound and outbound records of one hash
PairIntraBatch(c) ==
    LET ins == c.in_msgs_by_hash
        outs == c.out_msgs_by_hash
        both == KeySet(ins) \cap KeySet(outs)
    IN IF \E h \in both : ~PairingAsserts(ins, outs, h)
       THEN [c EXCEPT !.status = "AssertionError"]
       ELSE [c EXCEPT
               !.in_msgs_by_hash =
                   [i \in 1..Len(ins) |->
                       IF ins[i].hash \in both
                       THEN [ins[i] EXCEPT !.out_tx_id = Group(outs, ins[i].hash)[1].out_tx_id]
                       ELSE ins[i]],
               !.out_msgs_by_hash = PopAll(outs, both)]

\* mutant: the inbound probe selects every row of the hash
InboundProbe_AnyRow(rows, hashes) == {r \in rows : r.hash \in hashes}

\* mutant: the inbound probe selects the rows whose out_tx_id is NULL
InboundProbe_OutNull(rows, hashes) == {r \in rows : r.hash \in hashes /\ r.out_tx_id = Null}

\* line 151: the persisted rows the inbound probe selects
InboundProbe(rows, hashes) == {r \in rows : r.hash \in hashes /\ r.in_tx_id = Null}

\* mutant: the update writes both tx ids of the inbound record
UpdateInTx_BothIds(rows, h, in_tx_id) ==
    {IF r.hash = h THEN [r EXCEPT !.in_tx_id = in_tx_id, !.out_tx_id = Null] ELSE r : r \in rows}

\* line 158: UPDATE message SET in_tx_id WHERE hash = :hash
UpdateInTx(rows, h, in_tx_id) ==
    {IF r.hash = h THEN [r EXCEPT !.in_tx_id = in_tx_id] ELSE r : r \in rows}

RECURSIVE ApplyInUpdates(_, _, _)
ApplyInUpdates(rows, ins, hs) ==
    IF hs = {} THEN rows
    ELSE LET h == CHOOSE x \in hs : TRUE
         IN ApplyInUpdates(UpdateInTx(rows, h, Group(ins, h)[1].in_tx_id), ins, hs \ {h})

\* lines 154-160: one iteration per selected row.  The first row of a hash updates
\* and pops it; a second row of the same hash finds the popped key empty and the
\* assertion of line 156 raises, as it does when the batch holds several inbound
\* records of the hash.  The rows come back in no promised order: when the handler
\* raises, the writes shown are those of an order in which the raising row is last.
UpdateInbound(c, existing_in_msgs) ==
    LET ins == c.in_msgs_by_hash
        hs == {r.hash : r \in existing_in_msgs}
        once == {h \in hs : Len(Group(ins, h)) = 1}
        raises == \E h \in hs :
                    \/ Len(Group(ins, h)) # 1
                    \/ Cardinality({r \in existing_in_msgs : r.hash = h}) > 1
    IN [c EXCEPT
          !.message_t = ApplyInUpdates(@, ins, once),
          !.in_msgs_by_hash = PopAll(@, once),
          !.status = IF raises THEN "AssertionError" ELSE @]

\* lines 149-160 on one connection: the probe and the updates see the same rows
ResolveInbound(c) ==
    UpdateInbound(c, InboundProbe(c.message_t, KeySet(c.in_msgs_by_hash)))

\* mutant: the outbound probe selects every row of the hash
OutboundProbe_AnyRow(rows, hashes) == {r \in rows : r.hash \in hashes}

\* line 164: the persisted rows the outbound probe selects
OutboundProbe(rows, hashes) == {r \in rows : r.hash \in hashes /\ r.out_tx_id = Null}

\* line 171: UPDATE message SET out_tx_id WHERE hash = :hash
UpdateOutTx(rows, h, out_tx_id) ==
    {IF r.hash = h THEN [r EXCEPT !.out_tx_id = out_tx_id] ELSE r : r \in rows}

RECURSIVE ApplyOutUpdates(_, _, _)
ApplyOutUpdates(rows, outs, hs) ==
    IF hs = {} THEN rows
    ELSE LET h == CHOOSE x \in hs : TRUE
         IN ApplyOutUpdates(UpdateOutTx(rows, h, Group(outs, h)[1].out_tx_id), outs, hs \ {h})

\* lines 167-173, the mirror image of lines 154-160
UpdateOutbound(c, existing_out_msgs) ==
    LET outs == c.out_msgs_by_hash
        hs == {r.hash : r \in existing_out_msgs}
        once == {h \in hs : Len(Group(outs, h)) = 1}
        raises == \E h \in hs :
                    \/ Len(Group(outs, h)) # 1
                    \/ Cardinality({r \in existing_out_msgs : r.hash = h}) > 1
    IN [c EXCEPT
          !.message_t = ApplyOutUpdates(@, outs, once),
          !.out_msgs_by_hash = PopAll(@, once),
          !.status = IF raises THEN "AssertionError" ELSE @]

\* lines 162-173 on one connection
ResolveOutbound(c) ==
    UpdateOutbound(c, OutboundProbe(c.message_t, KeySet(c.out_msgs_by_hash)))

\* mutant: self-messages are handed to the parser like any other message
GoesToParser_SelfToo(msg) == message_supported(msg)

\* lines 193-201: is a newly inserted message handed to the parser
GoesToParser(msg) ==
    IF msg.source = msg.destination THEN FALSE    \* counted as an inscription
    ELSE message_supported(msg)

\* lines 175-205: insert what is left, with one content row per new msg_id
InsertMessages(c) ==
    LET msgs_to_insert == Flatten(c.out_msgs_by_hash) \o Flatten(c.in_msgs_by_hash)
        n == Len(msgs_to_insert)
        base == Cardinality(c.message_t)
        msg_ids == [i \in 1..n |-> base + i]
        row(i) == [msg_id |-> msg_ids[i], hash |-> msgs_to_insert[i].hash,
                   source |-> msgs_to_insert[i].source,
                   destination |-> msgs_to_insert[i].destination,
                   op |-> msgs_to_insert[i].op,
                   in_tx_id |-> msgs_to_insert[i].in_tx_id,
                   out_tx_id |-> msgs_to_insert[i].out_tx_id]
        content(i) == [msg_id |-> msg_ids[i],
                       body |-> GetContent(c.msg_contents_by_hash,
                                           msgs_to_insert[i].hash).body]
        parse == SelectSeq([i \in 1..n |-> i], LAMBDA i : GoesToParser(msgs_to_insert[i]))
    IN IF n = 0 THEN c
       ELSE [c EXCEPT
               !.msgs_to_insert = msgs_to_insert,
               !.message_t = @ \cup {row(i) : i \in 1..n},
               !.message_content_t = @ \cup {content(i) : i \in 1..n},
               !.msg_ids_to_parse = [k \in 1..Len(parse) |-> msg_ids[parse[k]]]]

\* mutant: the outbox time is the first header's gen_utime
min_block_time_FirstHeader(shard_headers) == shard_headers[1].gen_utime

\* line 209
min_block_time(shard_headers) ==
    Min({shard_headers[i].gen_utime : i \in 1..Len(shard_headers)})

RECURSIVE OutboxInsert(_, _, _)
\* insert_pg(outbox_t).values([...]).on_conflict_do_nothing()
OutboxInsert(c, items, i) ==
    IF i > Len(items) THEN c
    ELSE IF OutboxUniqueViolated(c.outbox_t, items[i]) THEN OutboxInsert(c, items, i + 1)
    ELSE OutboxInsert([c EXCEPT
                          !.outbox_seq = @ + 1,
                          !.outbox_t = @ \cup {[outbox_id |-> c.outbox_seq + 1,
                                                entity_type |-> items[i].entity_type,
                                                entity_id |-> items[i].entity_id,
                                                added_time |-> items[i].added_time,
                                                mc_seqno |-> items[i].mc_seqno,
                                                attempts |-> items[i].attempts]}],
                      items, i + 1)

\* mutant: the items are enqueued without the seqno of the batch
EnqueueMessages_NullSeqno(c, mc_seqno) ==
    IF Len(c.msg_ids_to_parse) = 0 THEN c
    ELSE OutboxInsert(c,
            [k \in 1..Len(c.msg_ids_to_parse) |->
                ParseOutbox_generate(PARSE_TYPE_MESSAGE, c.msg_ids_to_parse[k],
                                     min_block_time(c.shard_headers), Null)],
            1)

\* lines 207-217
EnqueueMessages(c, mc_seqno) ==
    IF Len(c.msg_ids_to_parse) = 0 THEN c
    ELSE OutboxInsert(c,
            [k \in 1..Len(c.msg_ids_to_parse) |->
                ParseOutbox_generate(PARSE_TYPE_MESSAGE, c.msg_ids_to_parse[k],
                                     min_block_time(c.shard_headers), mc_seqno)],
            1)

\* mutant: discovery overwrites the row of an address it already knows
DiscoverAccounts_Upsert(c, mc_seqno) ==
    IF discover_accounts_enabled /\ c.unique_addresses # {}
    THEN [c EXCEPT !.accounts_t =
            {k \in @ : k.address \notin c.unique_addresses}
            \cup {KnownAccounts_generate(a, c.mc_block_id, mc_seqno) :
                      a \in c.unique_addresses}]
    ELSE c

\* lines 220-225: insert_pg(accounts_t).values([...]).on_conflict_do_nothing()
DiscoverAccounts(c, mc_seqno) ==
    IF discover_accounts_enabled /\ c.unique_addresses # {}
    THEN [c EXCEPT !.accounts_t =
            @ \cup {KnownAccounts_generate(a, c.mc_block_id, mc_seqno) :
                      a \in {x \in c.unique_addresses :
                               ~\E k \in c.accounts_t : k.address = x}}]
    ELSE c

\* One statement group of the handler, done being the context it leaves when
\* it runs through.  fail = k: the storage raises in group k
\* (group 9 is the COMMIT that engine.begin() issues when the block is left).
Stage(c, k, fail, done) ==
    IF c.status # "ok" THEN c
    ELSE IF fail = k THEN [c EXCEPT !.status = "StorageError"]
    ELSE done

NumStages == 9

\* lines 88-225, up to the exit of the "async with engine.begin()" block
Body(t, batch, fail) ==
    LET c0 == Begin(t)
        c1 == Stage(c0, 1, fail, BlockLoop(c0, batch.blocks, 1))
        c2 == Stage(c1, 2, fail, InsertHeaders(c1))
        c3 == Stage(c2, 3, fail, PairIntraBatch(c2))
        c4 == Stage(c3, 4, fail, ResolveInbound(c3))
        c5 == Stage(c4, 5, fail, ResolveOutbound(c4))
        c6 == Stage(c5, 6, fail, InsertMessages(c5))
        c7 == Stage(c6, 7, fail, EnqueueMessages(c6, batch.mc_seqno))
        c8 == Stage(c7, 8, fail, DiscoverAccounts(c7, batch.mc_seqno))
        c9 == Stage(c8, 9, fail, c8)
    IN c9

\* what the connection has written when the block is left
Written(c) ==
    [block_t |-> c.block_t, block_headers_t |-> c.block_headers_t,
     transaction_t |-> c.transaction_t, message_t |-> c.message_t,
     message_content_t |-> c.message_content_t, accounts_t |-> c.accounts_t,
     outbox_t |-> c.outbox_t, outbox_seq |-> c.outbox_seq]

\* mutant: what the connection wrote stays when the block raises
Rollback_KeepsWrites(t, c) == Written(c)

\* line 88: engine.begin() rolls the transaction back when the block raises
Rollback(t, c) == t

\* line 88: engine.begin() commits on a normal exit
End(t, c) == IF c.status = "ok" THEN Written(c) ELSE Rollback(t, c)

(***************************************************************************)
(* The decoded batches offered to the handler.  A batch is one masterchain *)
(* block (shard 1) and its shard blocks, all of the batch's seqno; a       *)
(* transaction names its inbound message (Null: none) and its outbound     *)
(* messages by hash.                                                       *)
(***************************************************************************)
SeqsUpTo(S, n) == UNION {[1..k -> S] : k \in 0..n}

OkTx == [valid |-> TRUE, account |-> <<"raw", "A">>, compute_skip_reason |-> "none"]

TxOf(flavor, in_msg, out_msgs) ==
    [valid |-> flavor.valid, account |-> flavor.account,
     compute_skip_reason |-> flavor.compute_skip_reason,
     in_msg |-> in_msg, out_msgs |-> out_msgs]

BlockOf(shard, seqno, gen_utime, txs) ==
    [shard |-> shard, seqno |-> seqno, gen_utime |-> gen_utime, txs |-> txs]

\* masterchain seqnos are ingested in increasing order; an earlier one may be
\* submitted again
NextSeqno == Cardinality(ingested) + 1

\* SpecGraph: one block of one to MaxGraphBatchTx transactions, each with one
\* message, inbound or outbound, over two hashes
GraphHashes == {1, 2}

GraphTxs ==
    {TxOf(OkTx, h, <<>>) : h \in GraphHashes} \cup {TxOf(OkTx, Null, <<h>>) : h \in GraphHashes}

GraphBatches ==
    {[mc_seqno |-> NextSeqno,
      blocks |-> <<BlockOf(1, NextSeqno, 1, txs)>>] :
        txs \in SeqsUpTo(GraphTxs, MaxGraphBatchTx) \ {<<>>}}

(***************************************************************************)
(* Reading a committed batch back: its transactions in insertion order,    *)
(* the tx_id each was given, and where a hash occurs in it.                *)
(***************************************************************************)
RECURSIVE TxsFrom(_, _)
TxsFrom(blocks, i) ==
    IF i > Len(blocks) THEN <<>> ELSE blocks[i].txs \o TxsFrom(blocks, i + 1)

\* the transactions of a batch that get a row, in the order they get it
ValidTxs(batch) == SelectSeq(TxsFrom(batch.blocks, 1), LAMBDA tx : tx.valid)

\* positions of the transactions with an inbound record of hash h
InRecs(batch, h) == {k \in 1..Len(ValidTxs(batch)) : ValidTxs(batch)[k].in_msg = h}

\* <<transaction position, index>> of the outbound records of hash h
OutRecs(batch, h) ==
    LET txs == ValidTxs(batch)
    IN UNION {{<<k, j>> : j \in {i \in 1..Len(txs[k].out_msgs) : txs[k].out_msgs[i] = h}} :
                k \in 1..Len(txs)}

BatchHashes(batch) ==
    LET txs == ValidTxs(batch)
    IN UNION {{txs[k].in_msg} \ {Null} : k \in 1..Len(txs)}
       \cup UNION {{txs[k].out_msgs[j] : j \in 1..Len(txs[k].out_msgs)} : k \in 1..Len(txs)}

Tables ==
    [block_t |-> block_t, block_headers_t |-> block_headers_t,
     transaction_t |-> transaction_t, message_t |-> message_t,
     message_content_t |-> message_content_t, accounts_t |-> accounts_t,
     outbox_t |-> outbox_t, outbox_seq |-> outbox_seq]

NoBatch == [mc_seqno |-> Null, blocks |-> <<>>]

\* the tables the connection had written to when the handler raised
Dirty(t, c) ==
    {n \in {"block", "header", "transaction", "message", "content", "outbox", "accounts"} :
        CASE n = "block" -> c.block_t # t.block_t
          [] n = "header" -> c.block_headers_t # t.block_headers_t
          [] n = "transaction" -> c.transaction_t # t.transaction_t
          [] n = "message" -> c.message_t # t.message_t
          [] n = "content" -> c.message_content_t # t.message_content_t
          [] n = "outbox" -> c.outbox_t # t.outbox_t
          [] n = "accounts" -> c.accounts_t # t.accounts_t}
    \cup (IF \E r \in t.message_t : r \notin c.message_t THEN {"message_update"} ELSE {})

\* insert_by_seqno_core(session, blocks_raw, headers_raw, transactions_raw, mc_seqno)
insert_by_seqno_core(batch, fail) ==
    \E t \in {Tables} : \E c \in {Body(t, batch, fail)} : \E e \in {End(t, c)} :
       /\ block_t' = e.block_t
       /\ block_headers_t' = e.block_headers_t
       /\ transaction_t' = e.transaction_t
       /\ message_t' = e.message_t
       /\ message_content_t' = e.message_content_t
       /\ accounts_t' = e.accounts_t
       /\ outbox_t' = e.outbox_t
       /\ outbox_seq' = e.outbox_seq
       /\ ingested' = IF c.status = "ok" THEN ingested \cup {batch} ELSE ingested
       /\ lastOp' = [op |-> "insert_by_seqno_core", status |-> c.status,
                     batch |-> IF c.status = "ok" THEN batch ELSE NoBatch,
                     resubmit |-> batch \in ingested,
                     dirty |-> IF c.status = "ok" THEN {} ELSE Dirty(t, c),
                     tx_base |-> Cardinality(transaction_t),
                     msg_base |-> Cardinality(message_t)]
       /\ UNCHANGED <<accounts_state_t, code_t, now, held>>

IngestGraph ==
    \E batch \in GraphBatches :
        /\ Cardinality(transaction_t) + Len(ValidTxs(batch)) <= MaxGraphTx
        /\ insert_by_seqno_core(batch, 0)
        /\ UNCHANGED <<unit, conn>>

\* no unit of work is taken
NoUnit == [s |-> Null, todo |-> {}, clean |-> TRUE]

Workers == {1, 2}

\* a worker with no transaction open
IdleWorker == [pc |-> "idle"]

\* no transaction is open; iso is the isolation level of the engine
NoConn(iso) == [iso |-> iso, started |-> 0, of |-> [w \in Workers |-> IdleWorker]]

\* the database and the processes after construction, no transaction open
InitStore ==
    /\ block_t = {} /\ block_headers_t = {} /\ transaction_t = {}
    /\ message_t = {} /\ message_content_t = {} /\ accounts_t = {}
    /\ accounts_state_t = {} /\ code_t = {} /\ outbox_t = {} /\ outbox_seq = 0
    /\ now = 1 /\ held = {} /\ ingested = {}
    /\ lastOp = [op |-> "init"]
    /\ unit = NoUnit

Init == InitStore /\ conn = NoConn("READ COMMITTED")

\* SpecBatch: one or two blocks, each with at most one transaction
SkipTx == [valid |-> TRUE, account |-> <<"raw", "B">>, compute_skip_reason |-> "cskip_no_state"]
InvalidTx == [valid |-> FALSE, account |-> <<"raw", "A">>, compute_skip_reason |-> "none"]

StructTxs ==
    {TxOf(OkTx, Null, <<1>>), TxOf(OkTx, 1, <<>>), TxOf(OkTx, Null, <<2>>),
     TxOf(OkTx, Null, <<3>>), TxOf(SkipTx, Null, <<1>>), TxOf(InvalidTx, Null, <<1>>)}

StructUtimes == {<<1>>, <<2, 1>>, <<1, 2>>}

\* one or two blocks of at most one transaction, or three empty blocks
StructShapes ==
    {p \in StructUtimes \X SeqsUpTo(SeqsUpTo(StructTxs, 1), 2) : Len(p[1]) = Len(p[2])}
        \cup {<<<<1, 1, 1>>, <<<<>>, <<>>, <<>>>>>>}

StructBatches ==
    {[mc_seqno |-> NextSeqno,
      blocks |-> [i \in 1..Len(p[1]) |-> BlockOf(i, NextSeqno, p[1][i], p[2][i])]] :
        p \in StructShapes}

IngestBatch ==
    \E batch \in StructBatches, fail \in 0..NumStages :
        /\ Cardinality(block_t) + Len(batch.blocks) <= MaxBlockRows
        /\ insert_by_seqno_core(batch, fail)
        /\ UNCHANGED <<unit, conn>>

\* the ingestion loop submits a batch it has committed once more
Resubmit ==
    \E batch \in ingested : insert_by_seqno_core(batch, 0) /\ UNCHANGED <<unit, conn>>

(***************************************************************************)
(* The parse outbox and the account path.                                  *)
(***************************************************************************)
Range(q) == {q[i] : i \in 1..Len(q)}

\* .order_by(ParseOutbox.added_time.asc()).limit(limit): the lists the query
\* may return over the rows S, rows of equal added_time in either order
OrderedLimit(S, limit) ==
    {q \in SeqsUpTo(S, limit) :
        /\ Len(q) = IF Cardinality(S) < limit THEN Cardinality(S) ELSE limit
        /\ \A i, j \in 1..Len(q) : i < j => q[i] # q[j] /\ q[i].added_time <= q[j].added_time
        /\ \A x \in S \ Range(q) : \A i \in 1..Len(q) : q[i].added_time <= x.added_time}

\* lines 488-490: the rows get_outbox_items selects from
OutboxFilter(rows, today) ==
    {o \in rows : o.added_time < today /\ o.mc_seqno = Null}

\* lines 487-491
get_outbox_items(limit) ==
    \E res \in OrderedLimit(OutboxFilter(outbox_t, now), limit) :
        /\ Cardinality(held \cup Range(res)) <= MaxHeld
        /\ held' = held \cup Range(res)
        /\ lastOp' = [op |-> "get_outbox_items", limit |-> limit, res |-> res]
        /\ UNCHANGED <<tables, outbox_seq, now, ingested>>

\* mutant: the greatest mc_seqno is taken
min_mc_seqno_Greatest(rows) ==
    LET S == {o.mc_seqno : o \in rows} \ {Null}
    IN IF S = {} THEN Null ELSE Max(S)

\* line 494: func.min over the non-null mc_seqno, NULL when there is none
min_mc_seqno(rows) ==
    LET S == {o.mc_seqno : o \in rows} \ {Null}
    IN IF S = {} THEN Null ELSE Min(S)

\* mutant: the read deletes what it returns
get_outbox_items_by_min_seqno_Destructive ==
    LET res == {o \in outbox_t : min_mc_seqno(outbox_t) # Null
                                  /\ o.mc_seqno = min_mc_seqno(outbox_t)}
    IN /\ Cardinality(held \cup res) <= MaxHeld
       /\ held' = held \cup res
       /\ outbox_t' = outbox_t \ res
       /\ lastOp' = [op |-> "get_outbox_items_by_min_seqno", res |-> res]
       /\ UNCHANGED <<block_t, block_headers_t, transaction_t, message_t, message_content_t,
                      accounts_t, accounts_state_t, code_t, outbox_seq, now, ingested>>

\* lines 493-497: "mc_seqno = NULL" selects no row
get_outbox_items_by_min_seqno ==
    LET res == {o \in outbox_t : min_mc_seqno(outbox_t) # Null
                                  /\ o.mc_seqno = min_mc_seqno(outbox_t)}
    IN /\ Cardinality(held \cup res) <= MaxHeld
       /\ held' = held \cup res
       /\ lastOp' = [op |-> "get_outbox_items_by_min_seqno", res |-> res]
       /\ UNCHANGED <<tables, outbox_seq, now, ingested>>

\* lines 499-500
remove_outbox_item(outbox_id) ==
    /\ outbox_t' = {o \in outbox_t : o.outbox_id # outbox_id}
    /\ lastOp' = [op |-> "remove_outbox_item", outbox_id |-> outbox_id]
    /\ UNCHANGED <<block_t, block_headers_t, transaction_t, message_t, message_content_t,
                   accounts_t, accounts_state_t, code_t, outbox_seq, now, held, ingested>>

\* line 505: (outbox.attempts + 1) if outbox.attempts else 1, on the object passed in
NextAttempts(outbox, stored) ==
    IF outbox.attempts # Null THEN outbox.attempts + 1 ELSE 1

\* mutant: the item is queued again as a new row, the old row stays
postpone_outbox_item_Requeue(outbox, seconds) ==
    /\ outbox_t' = outbox_t \cup
                    {[outbox EXCEPT !.outbox_id = outbox_seq + 1,
                                    !.added_time = now + seconds,
                                    !.attempts = NextAttempts(outbox, outbox),
                                    !.mc_seqno = Null]}
    /\ outbox_seq' = outbox_seq + 1
    /\ lastOp' = [op |-> "postpone_outbox_item", outbox |-> outbox, seconds |-> seconds]
    /\ UNCHANGED <<block_t, block_headers_t, transaction_t, message_t, message_content_t,
                   accounts_t, accounts_state_t, code_t, now, held, ingested>>

\* mutant: an upsert, which writes the row back when it is gone
postpone_outbox_item_Upsert(outbox, seconds) ==
    /\ outbox_t' = {o \in outbox_t : o.outbox_id # outbox.outbox_id} \cup
                    {[outbox EXCEPT !.added_time = now + seconds,
                                    !.attempts = NextAttempts(outbox, outbox),
                                    !.mc_seqno = Null]}
    /\ lastOp' = [op |-> "postpone_outbox_item", outbox |-> outbox, seconds |-> seconds]
    /\ UNCHANGED <<block_t, block_headers_t, transaction_t, message_t, message_content_t,
                   accounts_t, accounts_state_t, code_t, outbox_seq, now, held, ingested>>

\* lines 502-506
postpone_outbox_item(outbox, seconds) ==
    /\ outbox_t' = {IF o.outbox_id = outbox.outbox_id
                    THEN [o EXCEPT !.added_time = now + seconds,
                                   !.attempts = NextAttempts(outbox, o),
                                   !.mc_seqno = Null]
                    ELSE o : o \in outbox_t}
    /\ lastOp' = [op |-> "postpone_outbox_item", outbox |-> outbox, seconds |-> seconds]
    /\ UNCHANGED <<block_t, block_headers_t, transaction_t, message_t, message_content_t,
                   accounts_t, accounts_state_t, code_t, outbox_seq, now, held, ingested>>

\* AccountState.raw_account_info_to_content_dict
raw_account_info_to_content_dict(account_raw, address) ==
    [address |-> address, code_hash |-> account_raw.code_hash,
     last_tx_lt |-> account_raw.last_tx_lt]

\* the state_id of the row that holds s_state, Null when there is none
StateIdOf(rows, s_state) ==
    IF \E r \in rows : [x \in DOMAIN s_state |-> r[x]] = s_state
    THEN (CHOOSE r \in rows : [x \in DOMAIN s_state |-> r[x]] = s_state).state_id
    ELSE Null

\* line 474: the scalar subquery, NULL when the address has no row
KnownSeqno(rows, address) ==
    IF \E k \in rows : k.address = address
    THEN (CHOOSE k \in rows : k.address = address).mc_seqno
    ELSE Null

\* .order_by(KnownAccounts.mc_seqno).limit(limit): the sets of rows the query
\* may return over the rows S, NULL sorting last and ties in either order
SeqnoOrderedLimit(S, limit) ==
    {q \in SUBSET S :
        /\ Cardinality(q) = IF Cardinality(S) < limit THEN Cardinality(S) ELSE limit
        /\ \A x \in q : \A y \in S \ q :
              \/ y.mc_seqno = Null
              \/ x.mc_seqno # Null /\ x.mc_seqno <= y.mc_seqno}

\* lines 432-440: the address lists the query may return
get_known_accounts_not_indexed(rows, limit, mc_seqno) ==
    LET stmt == {k \in rows : k.last_check_time = Null}
    IN IF mc_seqno # Null
       THEN {{k.address : k \in {x \in stmt : x.mc_seqno = mc_seqno}}}
       ELSE {{k.address : k \in q} : q \in SeqnoOrderedLimit(stmt, limit)}

\* mutant: the check is stamped, the discovery position is kept
MarkChecked_KeepsSeqno(k, today) == [k EXCEPT !.last_check_time = today]

\* lines 479-480: .values(last_check_time=..., mc_block_id=None, mc_seqno=None)
MarkChecked(k, today) ==
    [k EXCEPT !.last_check_time = today, !.mc_block_id = Null, !.mc_seqno = Null]

\* lines 451-480
insert_account(account_raw, address) ==
    LET s_state == raw_account_info_to_content_dict(account_raw, address)
        fresh == StateIdOf(accounts_state_t, s_state) = Null
        state_id == Cardinality(accounts_state_t) + 1
        item == ParseOutbox_generate(PARSE_TYPE_ACCOUNT, state_id, now,
                                     KnownSeqno(accounts_t, s_state.address))
        enqueue == fresh /\ ~OutboxUniqueViolated(outbox_t, item)
    IN /\ code_t' = IF s_state.code_hash # Null
                    /\ ~\E k \in code_t : k.hash = s_state.code_hash
                    THEN code_t \cup {[hash |-> s_state.code_hash, code |-> account_raw.code]}
                    ELSE code_t
       /\ accounts_state_t' = IF fresh
                              THEN accounts_state_t \cup
                                   {[state_id |-> state_id, address |-> s_state.address,
                                     code_hash |-> s_state.code_hash,
                                     last_tx_lt |-> s_state.last_tx_lt]}
                              ELSE accounts_state_t
       /\ outbox_t' = IF enqueue
                      THEN outbox_t \cup {[outbox_id |-> outbox_seq + 1,
                                           entity_type |-> item.entity_type,
                                           entity_id |-> item.entity_id,
                                           added_time |-> item.added_time,
                                           mc_seqno |-> item.mc_seqno,
                                           attempts |-> item.attempts]}
                      ELSE outbox_t
       /\ outbox_seq' = IF enqueue THEN outbox_seq + 1 ELSE outbox_seq
       /\ accounts_t' = {IF k.address = s_state.address THEN MarkChecked(k, now) ELSE k :
                           k \in accounts_t}
       /\ lastOp' = [op |-> "insert_account", address |-> address, fresh |-> fresh]
       /\ UNCHANGED <<block_t, block_headers_t, transaction_t, message_t, message_content_t,
                      now, held, ingested>>

\* lines 482-485
reset_account(address) ==
    /\ accounts_t' = {IF k.address = address
                      THEN [k EXCEPT !.last_check_time = Null, !.mc_block_id = Null,
                                     !.mc_seqno = Null]
                      ELSE k : k \in accounts_t}
    /\ lastOp' = [op |-> "reset_account", address |-> address]
    /\ UNCHANGED <<block_t, block_headers_t, transaction_t, message_t, message_content_t,
                   accounts_state_t, code_t, outbox_t, outbox_seq, now, held, ingested>>

\* Spec: one block with one transaction that sends one or two messages
QueueOuts == {<<1>>, <<1, 2>>, <<3>>}

QueueBatches ==
    {[mc_seqno |-> NextSeqno,
      blocks |-> <<BlockOf(1, NextSeqno, 1, <<TxOf(OkTx, Null, out_msgs)>>)>>] :
        out_msgs \in QueueOuts}

Addresses == {"A", "B"}

RawAccounts == {[code_hash |-> ch, code |-> <<"boc", ch>>, last_tx_lt |-> 1] : ch \in {Null, 7}}

Ingest ==
    \E batch \in QueueBatches :
        /\ Cardinality(ingested) < MaxBatches
        /\ insert_by_seqno_core(batch, 0)
        /\ UNCHANGED <<unit, conn>>

GetOutboxItems == \E limit \in 1..MaxHeld : get_outbox_items(limit) /\ UNCHANGED <<unit, conn>>

GetOutboxItemsByMinSeqno == get_outbox_items_by_min_seqno /\ UNCHANGED <<unit, conn>>

\* a consumer completes or postpones an item it has read
RemoveOutboxItem ==
    \E outbox \in held : remove_outbox_item(outbox.outbox_id) /\ UNCHANGED <<unit, conn>>

PostponeOutboxItem ==
    \E outbox \in held, seconds \in 0..MaxDelay :
        postpone_outbox_item(outbox, seconds) /\ UNCHANGED <<unit, conn>>

InsertAccount ==
    \E account_raw \in RawAccounts, address \in Addresses :
        /\ Cardinality(accounts_state_t) + 1 <= MaxStates
           \/ StateIdOf(accounts_state_t,
                        raw_account_info_to_content_dict(account_raw, address)) # Null
        /\ insert_account(account_raw, address)
        /\ UNCHANGED <<unit, conn>>

ResetAccount == \E address \in Addresses : reset_account(address) /\ UNCHANGED <<unit, conn>>

\* the clock advances
Tick ==
    /\ now < MaxTime
    /\ now' = now + 1
    /\ lastOp' = [op |-> "tick"]
    /\ UNCHANGED <<tables, outbox_seq, held, ingested, unit, conn>>

Next ==
    \/ Ingest
    \/ GetOutboxItems
    \/ GetOutboxItemsByMinSeqno
    \/ RemoveOutboxItem
    \/ PostponeOutboxItem
    \/ InsertAccount
    \/ ResetAccount
    \/ Tick

Spec == Init /\ [][Next]_vars

(***************************************************************************)
(* SpecUnit: a consumer that drains the outbox one masterchain block at a  *)
(* time.  It takes the items of the least mc_seqno as its unit of work and *)
(* removes them one by one, while batches, account states and postpones of *)
(* other consumers come in between.                                        *)
(***************************************************************************)
UnitOuts == {<<1>>, <<1, 4>>}

UnitBatches ==
    {[mc_seqno |-> seqno,
      blocks |-> <<BlockOf(1, seqno, 1, <<TxOf(OkTx, Null, out_msgs)>>)>>] :
        seqno \in (1..MaxUnitSeqno) \ {b.mc_seqno : b \in ingested}, out_msgs \in UnitOuts}

\* what an operation of somebody else does to the unit: an item that left the
\* queue is no longer to do, a row that entered it with an mc_seqno at or
\* below the unit's is recorded
UnitSeesOthers ==
    /\ UNCHANGED conn
    /\ unit' = [unit EXCEPT
                   !.todo = @ \cap {o.outbox_id : o \in outbox_t'},
                   !.clean = @ /\ ~\E o \in outbox_t' :
                                     /\ o.outbox_id > outbox_seq
                                     /\ o.mc_seqno # Null /\ o.mc_seqno <= unit.s]

UnitIngest ==
    \E batch \in UnitBatches : insert_by_seqno_core(batch, 0) /\ UnitSeesOthers

\* the consumer reads its next unit
UnitClaim ==
    /\ get_outbox_items_by_min_seqno
    /\ unit' = [s |-> min_mc_seqno(outbox_t),
                todo |-> {o.outbox_id : o \in lastOp'.res},
                clean |-> TRUE]
    /\ UNCHANGED conn

\* the consumer completes an item of its unit
UnitComplete ==
    \E outbox_id \in unit.todo : remove_outbox_item(outbox_id) /\ UnitSeesOthers

UnitPostpone ==
    \E outbox \in held, seconds \in 0..MaxDelay :
        postpone_outbox_item(outbox, seconds) /\ UnitSeesOthers

UnitInsertAccount ==
    \E account_raw \in RawAccounts, address \in Addresses :
        /\ Cardinality(accounts_state_t) + 1 <= MaxStates
           \/ StateIdOf(accounts_state_t,
                        raw_account_info_to_content_dict(account_raw, address)) # Null
        /\ insert_account(account_raw, address)
        /\ UnitSeesOthers

NextUnit ==
    \/ UnitIngest
    \/ UnitClaim
    \/ UnitComplete
    \/ UnitPostpone
    \/ UnitInsertAccount

SpecUnit == Init /\ [][NextUnit]_vars

(***************************************************************************)
(* Two ingestion workers, each running insert_by_seqno_core (lines 78-225) *)
(* on a connection of its own.  The handler takes no lock and selects      *)
(* nothing FOR UPDATE, so what one worker sees of the other is decided by  *)
(* the isolation level of the engine (line 88 asks for none): the model    *)
(* draws it from IsolationLevels.  A statement of the handler is one step. *)
(* The batches hold one block with one transaction and one message of      *)
(* hash 1, so every loop of the handler runs once and a step is exact.     *)
(***************************************************************************)
IsolationLevels == {"READ COMMITTED", "REPEATABLE READ"}

Worker(w) == conn.of[w]

\* the worker holds row locks
Active(w) == Worker(w).pc \notin {"idle", "aborted"}

\* rows the other connections have inserted, committed since or not: they
\* are invisible to this one, but the sequence of the table has handed
\* their ids out
Foreign(w, tbl, key, rows) ==
    {r \in Tables[tbl]
            \cup UNION {Worker(v).c[tbl] :
                          v \in {x \in Workers \ {w} : Worker(x).pc # "idle"}} :
        \A x \in rows : x[key] # r[key]}

\* the committed message rows with the connection's own writes on top
Overlay(rows, own, mine) ==
    {r \in rows : r.msg_id \notin mine} \cup {r \in own : r.msg_id \in mine}

\* the message rows a statement of worker w sees: the committed rows as of
\* the statement (READ COMMITTED) or as of the first statement (REPEATABLE
\* READ), with the worker's own writes
View(w) ==
    IF conn.iso = "READ COMMITTED"
    THEN Overlay(message_t, Worker(w).c.message_t, Worker(w).mine)
    ELSE Worker(w).c.message_t

\* an UPDATE waits while another open transaction has written a target row
Blocked(w, targets) ==
    \E v \in Workers \ {w} :
        /\ Active(v)
        /\ Worker(v).mine \cap {r.msg_id : r \in targets} # {}

\* REPEATABLE READ: an UPDATE of a row that changed since the snapshot fails
Stale(w, targets) ==
    /\ conn.iso = "REPEATABLE READ"
    /\ \E r \in targets : r.msg_id \notin Worker(w).mine /\ r \notin message_t

WorkerMsgs == {[in_msg |-> Null, out_msgs |-> <<1>>], [in_msg |-> 1, out_msgs |-> <<>>]}

\* one block, one transaction without a compute phase (no account discovered)
WorkerBatches ==
    {[mc_seqno |-> conn.started + 1,
      blocks |-> <<BlockOf(1, conn.started + 1, 1, <<TxOf(SkipTx, m.in_msg, m.out_msgs)>>)>>] :
        m \in WorkerMsgs}

\* the worker leaves the handler by an exception: engine.begin() rolls back
Raise(w, c) ==
    conn' = [conn EXCEPT !.of[w] = [Worker(w) EXCEPT !.pc = "aborted", !.c = c]]

\* lines 88-147: the transaction opens, the blocks, headers and transactions
\* are inserted, the messages collected and paired inside the batch
WorkerBegin(w) ==
    /\ Worker(w).pc = "idle"
    /\ conn.started < MaxWorkerBatches
    /\ \E batch \in WorkerBatches :
         LET t == [Tables EXCEPT
                     !.block_t = @ \cup Foreign(w, "block_t", "block_id", @),
                     !.transaction_t = @ \cup Foreign(w, "transaction_t", "tx_id", @)]
             c == PairIntraBatch(InsertHeaders(BlockLoop(Begin(t), batch.blocks, 1)))
         IN conn' = [conn EXCEPT
                       !.started = @ + 1,
                       !.of[w] = [pc |-> IF c.status = "ok" THEN "probe_in" ELSE "aborted",
                                  c |-> c, base |-> t, batch |-> batch,
                                  mine |-> {}, existing |-> {}]]
    /\ UNCHANGED <<tables, outbox_seq, now, held, ingested, lastOp, unit>>

\* lines 150-153: the SELECT of the persisted rows waiting for an inbound side
WorkerProbeIn(w) ==
    /\ Worker(w).pc = "probe_in"
    /\ conn' = [conn EXCEPT
                  !.of[w] = [Worker(w) EXCEPT
                               !.pc = "update_in",
                               !.c.message_t = View(w),
                               !.existing = InboundProbe(View(w),
                                               KeySet(Worker(w).c.in_msgs_by_hash))]]
    /\ UNCHANGED <<tables, outbox_seq, now, held, ingested, lastOp, unit>>

\* lines 154-160: UPDATE ... WHERE hash = ... for every selected row
WorkerUpdateIn(w) ==
    LET view == View(w)
        targets == {r \in view : r.hash \in {x.hash : x \in Worker(w).existing}}
        c == UpdateInbound([Worker(w).c EXCEPT !.message_t = view], Worker(w).existing)
    IN /\ Worker(w).pc = "update_in"
       /\ ~Blocked(w, targets)
       /\ IF Stale(w, targets)
          THEN Raise(w, [Worker(w).c EXCEPT !.status = "SerializationFailure"])
          ELSE IF c.status # "ok" THEN Raise(w, c)
          ELSE conn' = [conn EXCEPT
                          !.of[w] = [Worker(w) EXCEPT
                                       !.pc = "probe_out",
                                       !.c = c,
                                       !.mine = @ \cup {r.msg_id : r \in c.message_t \ view},
                                       !.existing = {}]]
       /\ UNCHANGED <<tables, outbox_seq, now, held, ingested, lastOp, unit>>

\* lines 163-166: the SELECT of the persisted rows waiting for an outbound side
WorkerProbeOut(w) ==
    /\ Worker(w).pc = "probe_out"
    /\ conn' = [conn EXCEPT
                  !.of[w] = [Worker(w) EXCEPT
                               !.pc = "update_out",
                               !.c.message_t = View(w),
                               !.existing = OutboundProbe(View(w),
                                               KeySet(Worker(w).c.out_msgs_by_hash))]]
    /\ UNCHANGED <<tables, outbox_seq, now, held, ingested, lastOp, unit>>

\* lines 167-173
WorkerUpdateOut(w) ==
    LET view == View(w)
        targets == {r \in view : r.hash \in {x.hash : x \in Worker(w).existing}}
        c == UpdateOutbound([Worker(w).c EXCEPT !.message_t = view], Worker(w).existing)
    IN /\ Worker(w).pc = "update_out"
       /\ ~Blocked(w, targets)
       /\ IF Stale(w, targets)
          THEN Raise(w, [Worker(w).c EXCEPT !.status = "SerializationFailure"])
          ELSE IF c.status # "ok" THEN Raise(w, c)
          ELSE conn' = [conn EXCEPT
                          !.of[w] = [Worker(w) EXCEPT
                                       !.pc = "insert",
                                       !.c = c,
                                       !.mine = @ \cup {r.msg_id : r \in c.message_t \ view},
                                       !.existing = {}]]
       /\ UNCHANGED <<tables, outbox_seq, now, held, ingested, lastOp, unit>>

\* lines 175-225: the unmatched messages, their contents and outbox items
WorkerInsert(w) ==
    LET view == View(w)
        taken == Foreign(w, "message_t", "msg_id", view)
        seq == Max({outbox_seq, Worker(w).c.outbox_seq}
                   \cup {Worker(v).c.outbox_seq :
                           v \in {x \in Workers \ {w} : Worker(x).pc # "idle"}})
        c0 == [Worker(w).c EXCEPT !.message_t = view \cup taken, !.outbox_seq = seq]
        c1 == DiscoverAccounts(EnqueueMessages(InsertMessages(c0), Worker(w).batch.mc_seqno),
                               Worker(w).batch.mc_seqno)
        c == [c1 EXCEPT !.message_t = @ \ taken]
    IN /\ Worker(w).pc = "insert"
       /\ conn' = [conn EXCEPT
                     !.of[w] = [Worker(w) EXCEPT
                                  !.pc = "commit",
                                  !.c = c,
                                  !.mine = @ \cup {r.msg_id : r \in c.message_t \ view}]]
       /\ UNCHANGED <<tables, outbox_seq, now, held, ingested, lastOp, unit>>

\* line 88: engine.begin() commits on a normal exit
WorkerCommit(w) ==
    LET c == Worker(w).c
        base == Worker(w).base
    IN /\ Worker(w).pc = "commit"
       /\ message_t' = Overlay(message_t, c.message_t, Worker(w).mine)
       /\ block_t' = block_t \cup (c.block_t \ base.block_t)
       /\ block_headers_t' = block_headers_t \cup (c.block_headers_t \ base.block_headers_t)
       /\ transaction_t' = transaction_t \cup (c.transaction_t \ base.transaction_t)
       /\ message_content_t' = message_content_t
                                 \cup (c.message_content_t \ base.message_content_t)
       /\ outbox_t' = outbox_t \cup (c.outbox_t \ base.outbox_t)
       /\ outbox_seq' = Max({outbox_seq, c.outbox_seq})
       /\ ingested' = ingested \cup {Worker(w).batch}
       /\ lastOp' = [op |-> "insert_by_seqno_core", status |-> "ok", worker |-> w,
                     batch |-> Worker(w).batch, paired |-> Worker(w).mine]
       /\ conn' = [conn EXCEPT !.of[w] = IdleWorker]
       /\ UNCHANGED <<accounts_t, accounts_state_t, code_t, now, held, unit>>

NextWorkers ==
    \E w \in Workers :
        \/ WorkerBegin(w)
        \/ WorkerProbeIn(w)
        \/ WorkerUpdateIn(w)
        \/ WorkerProbeOut(w)
        \/ WorkerUpdateOut(w)
        \/ WorkerInsert(w)
        \/ WorkerCommit(w)

InitWorkers == InitStore /\ \E iso \in IsolationLevels : conn = NoConn(iso)

SpecWorkers == InitWorkers /\ [][NextWorkers]_vars

(***************************************************************************)
(* The walk to the message a chain originated from (lines 508-524), over   *)
(* graphs whose transactions have an inbound message, outbound messages,   *)
(* or both.                                                                *)
(***************************************************************************)

\* lines 508-515
get_prev_msg_id(txs, rows, msg) ==
    IF msg.out_tx_id = Null THEN [status |-> "ok", msg_id |-> Null]
    ELSE IF ~\E tx \in txs : tx.tx_id = msg.out_tx_id
    THEN [status |-> "TypeError", msg_id |-> Null]       \* .first() is None
    ELSE LET tx == CHOOSE x \in txs : x.tx_id = msg.out_tx_id
             messages == {m \in rows : m.in_tx_id = tx.tx_id}
         IN IF Cardinality(messages) # 1
            THEN [status |-> "AssertionError", msg_id |-> Null]
            ELSE [status |-> "ok", msg_id |-> (CHOOSE m \in messages : TRUE).msg_id]

RECURSIVE get_originated_msg_id(_, _, _, _)
\* lines 517-524; depth is the number of calls the interpreter still allows:
\* a walk of more calls than there are rows has come back to a row and goes on
\* until the recursion limit
get_originated_msg_id(txs, rows, msg, depth) ==
    IF msg.out_tx_id = Null THEN [status |-> "ok", msg_id |-> msg.msg_id]
    ELSE IF ~\E tx \in txs : tx.tx_id = msg.out_tx_id
    THEN [status |-> "TypeError", msg_id |-> Null]
    ELSE LET tx == CHOOSE x \in txs : x.tx_id = msg.out_tx_id
             messages == {m \in rows : m.in_tx_id = tx.tx_id}
         IN IF Cardinality(messages) # 1
            THEN [status |-> "AssertionError", msg_id |-> Null]
            ELSE IF depth = 0 THEN [status |-> "RecursionError", msg_id |-> Null]
            ELSE get_originated_msg_id(txs, rows, CHOOSE m \in messages : TRUE, depth - 1)

\* a transaction without inbound message, chains 1 -> 2 -> 3, and a
\* transaction that receives 2 and sends 1
WalkTxs ==
    {TxOf(OkTx, Null, <<1>>), TxOf(OkTx, 1, <<2>>), TxOf(OkTx, 2, <<>>),
     TxOf(OkTx, 2, <<1>>), TxOf(OkTx, 1, <<>>)}

WalkBatches ==
    {[mc_seqno |-> NextSeqno,
      blocks |-> <<BlockOf(1, NextSeqno, 1, txs)>>] :
        txs \in SeqsUpTo(WalkTxs, MaxWalkBatchTx) \ {<<>>}}

IngestWalk ==
    \E batch \in WalkBatches :
        /\ Cardinality(transaction_t) + Len(ValidTxs(batch)) <= MaxWalkTx
        /\ insert_by_seqno_core(batch, 0)
        /\ UNCHANGED <<unit, conn>>

GetPrevMsgId ==
    \E msg \in message_t :
        /\ lastOp' = [op |-> "get_prev_msg_id", msg |-> msg,
                      res |-> get_prev_msg_id(transaction_t, message_t, msg)]
        /\ UNCHANGED <<tables, outbox_seq, now, held, ingested, unit, conn>>

GetOriginatedMsgId ==
    \E msg \in message_t :
        /\ lastOp' = [op |-> "get_originated_msg_id", msg |-> msg,
                      res |-> get_originated_msg_id(transaction_t, message_t, msg,
                                                    Cardinality(message_t))]
        /\ UNCHANGED <<tables, outbox_seq, now, held, ingested, unit, conn>>

NextWalk == IngestWalk \/ GetPrevMsgId \/ GetOriginatedMsgId

SpecWalk == Init /\ [][NextWalk]_vars

NextGraph == IngestGraph

NextBatch == IngestBatch \/ Resubmit

SpecBatch == Init /\ [][NextBatch]_vars

SpecGraph == Init /\ [][NextGraph]_vars

Committed == lastOp.op = "insert_by_seqno_core" /\ lastOp.status = "ok"
Aborted == lastOp.op = "insert_by_seqno_core" /\ lastOp.status # "ok"

\* the Message rows the last batch inserted
NewRows(h) == {r \in message_t : r.msg_id > lastOp.msg_base /\ r.hash = h}

Row(msg_id) == CHOOSE r \in message_t : r.msg_id = msg_id

(***************************************************************************)
(* The message-graph resolver (SpecGraph).                                 *)
(***************************************************************************)

\* the one element of a singleton set
The(S) == CHOOSE x \in S : TRUE

\* C2: when a committed batch holds hash h once as an outbound record (of
\* transaction A) and once as an inbound record (of transaction B), exactly one
\* Message row inserted by the batch carries h, with in_tx_id = B and out_tx_id = A.
C2_IntraBatchPairing ==
    Committed =>
        \A h \in BatchHashes(lastOp.batch) :
            (Cardinality(InRecs(lastOp.batch, h)) = 1
                /\ Cardinality(OutRecs(lastOp.batch, h)) = 1)
            => /\ Cardinality(NewRows(h)) = 1
               /\ \A r \in NewRows(h) :
                    /\ r.in_tx_id = lastOp.tx_base + The(InRecs(lastOp.batch, h))
                    /\ r.out_tx_id = lastOp.tx_base + The(OutRecs(lastOp.batch, h))[1]

\* C3: a batch that commits with the one missing half of a persisted orphan row
\* (one inbound record of the hash and no outbound one for a row without
\* in_tx_id, or the mirror image) sets the missing tx id of that row, keeps the
\* other, and inserts no row of that hash.
C3_CrossBatchResolution ==
    [][Committed' =>
        \A r \in message_t :
            /\ (/\ r.out_tx_id # Null /\ r.in_tx_id = Null
                /\ Cardinality(InRecs(lastOp'.batch, r.hash)) = 1
                /\ OutRecs(lastOp'.batch, r.hash) = {})
               => /\ [r EXCEPT !.in_tx_id =
                         lastOp'.tx_base + The(InRecs(lastOp'.batch, r.hash))] \in message_t'
                  /\ NewRows(r.hash)' = {}
            /\ (/\ r.in_tx_id # Null /\ r.out_tx_id = Null
                /\ Cardinality(OutRecs(lastOp'.batch, r.hash)) = 1
                /\ InRecs(lastOp'.batch, r.hash) = {})
               => /\ [r EXCEPT !.out_tx_id =
                         lastOp'.tx_base + The(OutRecs(lastOp'.batch, r.hash))[1]] \in message_t'
                  /\ NewRows(r.hash)' = {}
      ]_vars

\* C3 witness: the last batch resolved an outbound-first orphan and an
\* inbound-first orphan that earlier batches had persisted
C3_Witness ==
    /\ Committed
    /\ \E r \in message_t :
        /\ r.msg_id <= lastOp.msg_base
        /\ r.out_tx_id # Null /\ r.out_tx_id <= lastOp.tx_base
        /\ r.in_tx_id > lastOp.tx_base
        /\ Cardinality(InRecs(lastOp.batch, r.hash)) = 1
        /\ OutRecs(lastOp.batch, r.hash) = {}
    /\ \E r \in message_t :
        /\ r.msg_id <= lastOp.msg_base
        /\ r.in_tx_id # Null /\ r.in_tx_id <= lastOp.tx_base
        /\ r.out_tx_id > lastOp.tx_base
        /\ Cardinality(OutRecs(lastOp.batch, r.hash)) = 1
        /\ InRecs(lastOp.batch, r.hash) = {}

\* C4: an orphan row with out_tx_id set and in_tx_id null is left as it is by
\* every call that does not commit an inbound record of its hash, and such a
\* call adds no row with the orphan's hash and out_tx_id.
C4_OrphanStays ==
    [][\A r \in message_t :
        (/\ r.out_tx_id # Null /\ r.in_tx_id = Null
         /\ ~(Committed' /\ InRecs(lastOp'.batch, r.hash) # {}))
        => /\ r \in message_t'
           /\ {x \in message_t' : x.hash = r.hash /\ x.out_tx_id = r.out_tx_id}
                = {x \in message_t : x.hash = r.hash /\ x.out_tx_id = r.out_tx_id}
      ]_vars

\* C4 witness: an orphan of the first batch is still an orphan after two later
\* batches were committed, the last of which probed its hash
C4_Witness ==
    /\ Committed
    /\ Cardinality(ingested) = 3
    /\ \E r \in message_t :
        /\ r.out_tx_id # Null /\ r.in_tx_id = Null
        /\ \E tx \in transaction_t : tx.tx_id = r.out_tx_id /\ tx.block_id = 1
        /\ OutRecs(lastOp.batch, r.hash) # {}

\* C5: no step takes a Message row away or turns a non-null in_tx_id or
\* out_tx_id of a row into null.
C5_NoRegression ==
    [][\A r \in message_t :
        \E x \in message_t' :
            /\ x.msg_id = r.msg_id
            /\ (r.in_tx_id # Null => x.in_tx_id # Null)
            /\ (r.out_tx_id # Null => x.out_tx_id # Null)
      ]_vars

\* C5 witness: the last batch updated a row that already had a tx id
C5_Witness ==
    /\ Committed
    /\ \E r \in message_t :
        /\ r.msg_id <= lastOp.msg_base
        /\ r.out_tx_id # Null /\ r.out_tx_id <= lastOp.tx_base
        /\ r.in_tx_id > lastOp.tx_base

\* does the batch hold two records of hash h on one side
SameSideDuplicate(batch, h) ==
    Cardinality(InRecs(batch, h)) > 1 \/ Cardinality(OutRecs(batch, h)) > 1

\* C6 as claimed: a batch with two records of one hash on one side never commits.
C6_DuplicateAlwaysAborts ==
    Committed => \A h \in BatchHashes(lastOp.batch) : ~SameSideDuplicate(lastOp.batch, h)

\* C6 amended: a batch with two or more records of one hash on one side aborts
\* when the hash also occurs on the other side of the batch or when a persisted
\* row of the hash lacks that side's tx id; when it commits, every record of the
\* hash is inserted as a row of its own.
C6_DuplicateAbortsWhenMatched ==
    [][Committed' =>
        \A h \in BatchHashes(lastOp'.batch) :
            SameSideDuplicate(lastOp'.batch, h)
            => /\ InRecs(lastOp'.batch, h) = {} \/ OutRecs(lastOp'.batch, h) = {}
               /\ InRecs(lastOp'.batch, h) # {}
                    => ~\E r \in message_t : r.hash = h /\ r.in_tx_id = Null
               /\ OutRecs(lastOp'.batch, h) # {}
                    => ~\E r \in message_t : r.hash = h /\ r.out_tx_id = Null
               /\ Cardinality(NewRows(h)') =
                    Cardinality(InRecs(lastOp'.batch, h)) + Cardinality(OutRecs(lastOp'.batch, h))
      ]_vars

\* C6 witness: a batch with two outbound records of one hash was committed
C6_Witness ==
    /\ Committed
    /\ \E h \in BatchHashes(lastOp.batch) :
        /\ Cardinality(OutRecs(lastOp.batch, h)) = 2
        /\ Cardinality(NewRows(h)) = 2

(***************************************************************************)
(* The batch transaction (SpecBatch).                                      *)
(***************************************************************************)

\* C1: a call of insert_by_seqno_core that raises (a storage error in any
\* statement group, a unique violation, a resolver assertion) leaves every table
\* as it was before the call.
C1_AllOrNothing ==
    [][Aborted' => tables' = tables]_vars

\* C1 witness: the storage failed after the transaction had inserted a block, a
\* header and a transaction and had updated a persisted Message row in place
C1_Witness ==
    /\ Aborted
    /\ lastOp.status = "StorageError"
    /\ {"block", "header", "transaction", "message_update"} \subseteq lastOp.dirty

\* C7: submitting a committed batch again leaves every table as it was.
C7_ResubmitIdempotent ==
    [][(lastOp'.op = "insert_by_seqno_core" /\ lastOp'.resubmit) => tables' = tables]_vars

\* C7 witness: a committed batch with a message was submitted again with no
\* storage fault and the call raised on the Block unique constraint
C7_Witness ==
    /\ lastOp.op = "insert_by_seqno_core" /\ lastOp.resubmit
    /\ lastOp.status = "IntegrityError"
    /\ message_t # {} /\ outbox_t # {}

\* gen_utime of the headers of a batch
BatchUtimes(batch) == {batch.blocks[i].gen_utime : i \in 1..Len(batch.blocks)}

\* C9: after a batch commits, every Message row it inserted that is supported
\* and not a self-message has exactly one MESSAGE outbox item, whose added_time
\* is the least gen_utime of the batch's headers.
C9_OutboxPerNewMessage ==
    Committed =>
        \A r \in message_t :
            (r.msg_id > lastOp.msg_base /\ r.source # r.destination /\ message_supported(r))
            => LET items == {o \in outbox_t : o.entity_type = PARSE_TYPE_MESSAGE
                                              /\ o.entity_id = r.msg_id}
               IN /\ Cardinality(items) = 1
                  /\ \A o \in items :
                        /\ o.added_time \in BatchUtimes(lastOp.batch)
                        /\ \A u \in BatchUtimes(lastOp.batch) : o.added_time <= u

\* C9 witness: a two-block batch whose first header is not the earliest
\* inserted a supported message
C9_Witness ==
    /\ Committed
    /\ Len(lastOp.batch.blocks) = 2
    /\ lastOp.batch.blocks[1].gen_utime > lastOp.batch.blocks[2].gen_utime
    /\ \E r \in message_t :
        r.msg_id > lastOp.msg_base /\ r.source # r.destination /\ message_supported(r)

(***************************************************************************)
(* The parse outbox (Spec).                                                *)
(***************************************************************************)

\* a message the handler does not hand to the parser
NotForParser(msg) == msg.source = msg.destination \/ ~message_supported(msg)

\* C8: a self-message or a message with an unsupported payload that a batch
\* inserts is kept as a Message row with its MessageContent row, and in no
\* state, whatever operation follows, does a MESSAGE outbox item carry its msg_id.
C8_NeverInOutbox ==
    /\ \A r \in message_t :
          NotForParser(r) =>
             /\ \E m \in message_content_t : m.msg_id = r.msg_id
             /\ ~\E o \in outbox_t : o.entity_type = PARSE_TYPE_MESSAGE
                                     /\ o.entity_id = r.msg_id
    /\ Committed =>
          \A h \in BatchHashes(lastOp.batch) :
             (/\ NotForParser(RawMsg(h))
              /\ ~\E r \in message_t : r.msg_id <= lastOp.msg_base /\ r.hash = h
                                       /\ r.in_tx_id # Null /\ r.out_tx_id # Null)
             => NewRows(h) # {}

\* C8 witness: a self-message and an unsupported message are stored, the outbox
\* holds an item of each kind, and a consumer has since postponed an item
C8_Witness ==
    /\ \E r \in message_t : r.source = r.destination
    /\ \E r \in message_t : r.source # r.destination /\ ~message_supported(r)
    /\ \E o \in outbox_t : o.entity_type = PARSE_TYPE_ACCOUNT
    /\ \E o \in outbox_t : o.entity_type = PARSE_TYPE_MESSAGE
    /\ lastOp.op = "postpone_outbox_item"

\* C10: every postpone_outbox_item call leaves the stored item with attempts one
\* above the attempts stored before the call (NULL counts as 0) and with
\* mc_seqno NULL, and get_outbox_items does not select the item before the
\* delay has passed.
C10_PostponeIncrements ==
    [][lastOp'.op = "postpone_outbox_item" =>
         \A o \in outbox_t :
            o.outbox_id = lastOp'.outbox.outbox_id =>
               \E p \in outbox_t' :
                  /\ p.outbox_id = o.outbox_id
                  /\ p.attempts = o.attempts + 1
                  /\ p.mc_seqno = Null
                  /\ \A today \in now..(now + lastOp'.seconds) :
                        p \notin OutboxFilter(outbox_t', today)]_vars

\* the outbox_ids in the queue
OutboxIds == {o.outbox_id : o \in outbox_t}

\* the outbox_ids that were handed out and have left the queue
Removed == (1..outbox_seq) \ OutboxIds

\* C12: a row that get_outbox_items returns was not returned by an earlier read
\* unless it was postponed since (a postponed row differs from every copy read
\* before); the result has at most limit rows in ascending added_time order.
C12_ClaimOldestExclusive ==
    [][lastOp'.op = "get_outbox_items" =>
         /\ Len(lastOp'.res) <= lastOp'.limit
         /\ \A i, j \in 1..Len(lastOp'.res) :
               i < j => lastOp'.res[i].added_time <= lastOp'.res[j].added_time
         /\ \A i \in 1..Len(lastOp'.res) : lastOp'.res[i] \notin held]_vars

\* C13: in every state no two outbox rows carry the same (entity_type, entity_id).
C13_OnePerEntity ==
    \A o, p \in outbox_t :
        (o.entity_type = p.entity_type /\ o.entity_id = p.entity_id) => o = p

\* C13 witness: the queue holds a MESSAGE item and an ACCOUNT item, one of its
\* items has been postponed and another item has been removed
C13_Witness ==
    /\ \E o \in outbox_t : o.entity_type = PARSE_TYPE_MESSAGE
    /\ \E o \in outbox_t : o.entity_type = PARSE_TYPE_ACCOUNT
    /\ \E o \in outbox_t : o.attempts >= 1
    /\ Removed # {}

\* C14: an outbox_id that has left the queue never comes back, no queued row
\* carries the entity of a removed item a consumer had read, no read returns a
\* removed item, and a postpone with the copy of a removed item changes no table.
C14_RemoveIsFinal ==
    [][/\ \A id \in Removed : id \in Removed'
       /\ \A c \in held' :
             c.outbox_id \in Removed' =>
                ~\E o \in outbox_t' : o.entity_type = c.entity_type
                                      /\ o.entity_id = c.entity_id
       /\ lastOp'.op = "get_outbox_items" =>
             \A i \in 1..Len(lastOp'.res) : lastOp'.res[i].outbox_id \notin Removed'
       /\ lastOp'.op = "get_outbox_items_by_min_seqno" =>
             \A r \in lastOp'.res : r.outbox_id \notin Removed'
       /\ (lastOp'.op = "postpone_outbox_item" /\ lastOp'.outbox.outbox_id \in Removed)
             => tables' = tables
      ]_vars

\* C14 witness: an item was removed and then postponed with the copy a consumer
\* still held
C14_Witness ==
    /\ lastOp.op = "postpone_outbox_item"
    /\ lastOp.outbox.outbox_id \in Removed

\* C15: a step takes a row out of the outbox only if it is remove_outbox_item
\* called with the outbox_id of that row.
C15_OnlyRemoveDeletes ==
    [][\A o \in outbox_t :
         \/ \E p \in outbox_t' : p.outbox_id = o.outbox_id
         \/ lastOp'.op = "remove_outbox_item" /\ lastOp'.outbox_id = o.outbox_id
      ]_vars

\* C15 witness: an item that a consumer read and never completed is still
\* queued after a later batch, while another item has been removed
C15_Witness ==
    /\ Committed
    /\ Removed # {}
    /\ \E c \in held : c.outbox_id \in OutboxIds

(***************************************************************************)
(* Draining by masterchain block (SpecUnit).                               *)
(***************************************************************************)

\* C11: get_outbox_items_by_min_seqno returns exactly the rows whose mc_seqno is
\* the least non-null mc_seqno s of the queue; once every returned row has been
\* removed, and no row with an mc_seqno at or below s has entered the queue
\* since the read, no queued row has an mc_seqno at or below s.
C11_MinSeqnoDrained ==
    /\ lastOp.op = "get_outbox_items_by_min_seqno" =>
          \A o \in outbox_t :
             o \in lastOp.res <=>
                /\ o.mc_seqno # Null
                /\ \A p \in outbox_t : p.mc_seqno # Null => o.mc_seqno <= p.mc_seqno
    /\ (unit.s # Null /\ unit.todo = {} /\ unit.clean) =>
          \A o \in outbox_t : o.mc_seqno = Null \/ o.mc_seqno > unit.s

\* C11 witness: the unit of the least mc_seqno held two items, both have been
\* removed, nothing entered at or below it, and a later block's item is queued
C11_Witness ==
    /\ lastOp.op = "remove_outbox_item"
    /\ unit.s # Null /\ unit.todo = {} /\ unit.clean
    /\ Cardinality({c \in held : c.mc_seqno = unit.s}) = 2
    /\ \E o \in outbox_t : o.mc_seqno > unit.s

\* a hash has an outbound-only row beside an inbound-only row
HalvesApart ==
    \E r1, r2 \in message_t :
        /\ r1.hash = r2.hash
        /\ r1.out_tx_id # Null /\ r1.in_tx_id = Null
        /\ r2.in_tx_id # Null /\ r2.out_tx_id = Null

\* C16: with two workers ingesting concurrently, a persisted orphan is paired
\* by at most one of them: the tx id a batch wrote into a row is never written
\* again by another batch, and no interleaving leaves the two halves of one
\* hash as two orphan rows
C16_PairedOnce ==
    [][/\ \A r \in message_t : \A r2 \in message_t' :
            r.msg_id = r2.msg_id =>
                /\ r.in_tx_id # Null => r2.in_tx_id = r.in_tx_id
                /\ r.out_tx_id # Null => r2.out_tx_id = r.out_tx_id
       /\ (\A w \in Workers : conn'.of[w].pc = "idle") => ~HalvesApart']_vars

\* the block rows a committed batch inserted, in the order of the batch
BatchBlockRow(batch, i) ==
    CHOOSE r \in block_t : r.shard = batch.blocks[i].shard /\ r.seqno = batch.blocks[i].seqno

\* C17: in every committed batch the first inserted block has
\* masterchain_block_id null and every later block of the batch carries the
\* block_id of that first block, whatever other batches were stored before
C17_BatchAnchor ==
    \A batch \in ingested :
        /\ \A i \in 1..Len(batch.blocks) :
              \E r \in block_t : /\ r.shard = batch.blocks[i].shard
                                 /\ r.seqno = batch.blocks[i].seqno
        /\ BatchBlockRow(batch, 1).masterchain_block_id = Null
        /\ \A i \in 2..Len(batch.blocks) :
              BatchBlockRow(batch, i).masterchain_block_id = BatchBlockRow(batch, 1).block_id

\* C17 witness: a batch of two blocks was committed after another batch, so
\* its anchor is not the first row of the table
C17_Witness ==
    /\ Committed
    /\ Len(lastOp.batch.blocks) = 2
    /\ BatchBlockRow(lastOp.batch, 1).block_id > 1
    /\ BatchBlockRow(lastOp.batch, 2).masterchain_block_id
          = BatchBlockRow(lastOp.batch, 1).block_id

\* the batch without the transactions that do not decode
WithoutInvalid(batch) ==
    [batch EXCEPT !.blocks =
        [i \in 1..Len(batch.blocks) |->
            [batch.blocks[i] EXCEPT !.txs = SelectSeq(@, LAMBDA tx : tx.valid)]]]

HasInvalid(batch) ==
    \E i \in 1..Len(batch.blocks) :
        \E j \in 1..Len(batch.blocks[i].txs) : ~batch.blocks[i].txs[j].valid

\* C18: a batch holding a transaction that does not decode commits, and
\* leaves exactly the rows the same batch without that transaction leaves:
\* no Transaction row, no message, no account and no outbox item comes from
\* the skipped transaction, and the other transactions are unaffected
C18_InvalidSkipped ==
    [][(lastOp'.op = "insert_by_seqno_core" /\ HasInvalid(lastOp'.batch)) =>
          \E c \in {Body(Tables, WithoutInvalid(lastOp'.batch), 0)} :
             /\ Body(Tables, lastOp'.batch, 0).status = c.status
             /\ Committed' =>
                   /\ c.status = "ok"
                   /\ block_t' = c.block_t
                   /\ block_headers_t' = c.block_headers_t
                   /\ transaction_t' = c.transaction_t
                   /\ message_t' = c.message_t
                   /\ message_content_t' = c.message_content_t
                   /\ accounts_t' = c.accounts_t
                   /\ outbox_t' = c.outbox_t
                   /\ Cardinality(transaction_t') - Cardinality(transaction_t)
                         = Cardinality({i \in 1..Len(lastOp'.batch.blocks) :
                                           /\ lastOp'.batch.blocks[i].txs # <<>>
                                           /\ lastOp'.batch.blocks[i].txs[1].valid})]_vars

\* C18 witness: a committed batch of a block whose transaction does not
\* decode and a block whose transaction does; only the second left rows
C18_Witness ==
    /\ Committed
    /\ Len(lastOp.batch.blocks) = 2
    /\ lastOp.batch.blocks[1].txs = <<TxOf(InvalidTx, Null, <<1>>)>>
    /\ lastOp.batch.blocks[2].txs = <<TxOf(OkTx, 1, <<>>)>>
    /\ Cardinality(transaction_t) = lastOp.tx_base + 1
    /\ \E m \in message_t : m.hash = 1 /\ m.in_tx_id # Null /\ m.out_tx_id = Null

\* C19: a batch leaves every KnownAccounts row it finds as it is (mc_block_id,
\* mc_seqno and last_check_time included), whatever insert_account and
\* reset_account did to the row before, and adds rows only for addresses
\* that had none
C19_FirstSeenWins ==
    [][lastOp'.op = "insert_by_seqno_core" =>
          /\ \A k \in accounts_t : k \in accounts_t'
          /\ \A k \in accounts_t' \ accounts_t :
                ~\E old \in accounts_t : old.address = k.address]_vars

\* C19 witness: a later batch with a transaction of address A has committed
\* after insert_account stamped the row the first batch discovered for A
C19_Witness ==
    /\ Committed
    /\ lastOp.batch.mc_seqno > 1
    /\ lastOp.batch.blocks[1].txs[1].account = <<"raw", "A">>
    /\ \E k \in accounts_t : /\ k.address = Address_to_string(<<"raw", "A">>)
                             /\ k.last_check_time # Null
                             /\ k.mc_seqno = Null

\* C20: a committed insert_account(address) leaves the KnownAccounts row of
\* the address with last_check_time set and mc_block_id, mc_seqno null, so
\* no call of get_known_accounts_not_indexed returns the address; when the
\* fetched state equals a stored one no AccountState row and no outbox item
\* is added; when a state row is added, exactly one ACCOUNT outbox item with
\* its state_id is added
C20_InsertAccountMarksChecked ==
    [][lastOp'.op = "insert_account" =>
          /\ \A k \in accounts_t' :
                k.address = lastOp'.address =>
                    /\ k.last_check_time # Null
                    /\ k.mc_block_id = Null /\ k.mc_seqno = Null
          /\ \A limit \in 1..Cardinality(Addresses), mc_seqno \in {Null} \cup 1..MaxBatches :
                \A res \in get_known_accounts_not_indexed(accounts_t', limit, mc_seqno) :
                    lastOp'.address \notin res
          /\ ~lastOp'.fresh => accounts_state_t' = accounts_state_t /\ outbox_t' = outbox_t
          /\ lastOp'.fresh =>
                /\ accounts_state_t \subseteq accounts_state_t'
                /\ outbox_t \subseteq outbox_t'
                /\ \E s \in accounts_state_t' \ accounts_state_t :
                      /\ accounts_state_t' \ accounts_state_t = {s}
                      /\ s.address = lastOp'.address
                      /\ \E o \in outbox_t' \ outbox_t :
                            /\ outbox_t' \ outbox_t = {o}
                            /\ o.entity_type = PARSE_TYPE_ACCOUNT
                            /\ o.entity_id = s.state_id]_vars

\* C20 witness: insert_account fetched the state it had stored before, for
\* an address ingestion had discovered; the outbox item of the first call is
\* still queued and the row is stamped
C20_Witness ==
    /\ lastOp.op = "insert_account" /\ ~lastOp.fresh
    /\ \E s \in accounts_state_t : s.address = lastOp.address
    /\ Cardinality({o \in outbox_t : o.entity_type = PARSE_TYPE_ACCOUNT}) = 1
    /\ \E k \in accounts_t : /\ k.address = lastOp.address
                             /\ k.last_check_time # Null /\ k.mc_seqno = Null

\* the MessageContent rows of a Message row
ContentsOf(m) == {k \in message_content_t : k.msg_id = m.msg_id}

\* C21: every Message row has exactly one MessageContent row of its msg_id,
\* holding the content of a record of the row's hash, and there is no content
\* row without its Message row; a row resolved in place is no exception
C21_OneContentPerMessage ==
    /\ \A m \in message_t :
          /\ Cardinality(ContentsOf(m)) = 1
          /\ \A k \in ContentsOf(m) : k.body = raw_msg_to_content_dict(RawMsg(m.hash)).body
    /\ \A k \in message_content_t : \E m \in message_t : m.msg_id = k.msg_id

\* C21 witness: the last batch resolved a persisted orphan in place and
\* inserted a row of another hash; both rows have their one content row
C21_Witness ==
    /\ Committed
    /\ \E m \in message_t :
          /\ m.msg_id <= lastOp.msg_base
          /\ m.in_tx_id > lastOp.tx_base /\ m.out_tx_id # Null /\ m.out_tx_id <= lastOp.tx_base
          /\ Cardinality(ContentsOf(m)) = 1
          /\ \E n \in message_t : /\ n.msg_id > lastOp.msg_base /\ n.hash # m.hash
                                  /\ Cardinality(ContentsOf(n)) = 1

\* the hashes a batch holds on the inbound side only
InboundOnly(batch) == {h \in BatchHashes(batch) : OutRecs(batch, h) = {}}

\* the persisted row r took the inbound record of hash h of the last batch
\* in place, and the record was not inserted
TookInbound(r, h) ==
    /\ \E x \in message_t' : /\ x.msg_id = r.msg_id
                             /\ x.in_tx_id = lastOp'.tx_base + The(InRecs(lastOp'.batch, h))
    /\ NewRows(h)' = {}

\* C22 as claimed: for an inbound-only hash of a committed batch, the
\* persisted rows of the hash whose out_tx_id is null are the matches: each
\* has its in_tx_id updated in place and the inbound record is not inserted
C22_InboundProbesMissingOut ==
    [][Committed' =>
          \A h \in InboundOnly(lastOp'.batch) :
             \A r \in {x \in message_t : x.hash = h /\ x.out_tx_id = Null} :
                TookInbound(r, h)]_vars

\* C22 amended: for an inbound-only hash of a committed batch, the persisted
\* rows of the hash whose in_tx_id is null are the matches: each has its
\* in_tx_id updated in place and the inbound record is not inserted; when
\* there is no such row, every inbound record of the hash is inserted
C22_InboundProbesMissingIn ==
    [][Committed' =>
          \A h \in InboundOnly(lastOp'.batch) :
             /\ \A r \in {x \in message_t : x.hash = h /\ x.in_tx_id = Null} :
                   TookInbound(r, h)
             /\ {x \in message_t : x.hash = h /\ x.in_tx_id = Null} = {}
                   => /\ Cardinality(NewRows(h)') = Cardinality(InRecs(lastOp'.batch, h))
                      /\ \A r \in message_t : r \in message_t' \/ r.hash # h]_vars

\* C22 witness: the second batch brought the inbound record of a persisted
\* outbound-first orphan and the inbound record of a hash never seen; the
\* first went into the orphan row, the second into a new row
C22_Witness ==
    /\ Committed
    /\ Cardinality(ingested) = 2
    /\ \E r \in message_t :
          /\ r.msg_id <= lastOp.msg_base
          /\ r.out_tx_id # Null /\ r.in_tx_id > lastOp.tx_base
          /\ r.hash \in InboundOnly(lastOp.batch)
          /\ NewRows(r.hash) = {}
          /\ \E h \in InboundOnly(lastOp.batch) \ {r.hash} : Cardinality(NewRows(h)) = 1

\* the MESSAGE items no postpone has touched
FreshMessageItems == {o \in outbox_t : o.entity_type = PARSE_TYPE_MESSAGE /\ o.attempts = Null}

\* C23 as claimed: a MESSAGE item that ingestion enqueued and nobody
\* postponed has mc_seqno null, so that get_outbox_items selects it once its
\* added_time is in the past
C23_PendingOnEnqueue ==
    \A o \in FreshMessageItems :
        /\ o.mc_seqno = Null
        /\ o.added_time < now => o \in OutboxFilter(outbox_t, now)

\* C23 amended: a MESSAGE item enqueued by a batch carries the mc_seqno of
\* the batch; get_outbox_items returns a MESSAGE item only after a postpone
\* has cleared its mc_seqno, and until then the item is served by
\* get_outbox_items_by_min_seqno when no queued item has a lesser mc_seqno
C23_EnqueuedWithSeqno ==
    [][/\ Committed' =>
            \A o \in outbox_t' :
                o.outbox_id > outbox_seq =>
                    /\ o.entity_type = PARSE_TYPE_MESSAGE
                    /\ o.mc_seqno = lastOp'.batch.mc_seqno /\ o.mc_seqno # Null
       /\ lastOp'.op = "get_outbox_items" =>
            /\ Range(lastOp'.res) \cap FreshMessageItems = {}
            /\ \A o \in Range(lastOp'.res) : o.mc_seqno = Null
       /\ lastOp'.op = "get_outbox_items_by_min_seqno" =>
            \A o \in FreshMessageItems :
                (\A x \in outbox_t : x.mc_seqno # Null => o.mc_seqno <= x.mc_seqno)
                    => o \in lastOp'.res]_vars

\* C23 witness: get_outbox_items, asked for two items, returned only the
\* MESSAGE item that had been postponed, while a MESSAGE item of a later batch
\* with its added_time in the past and no postpone stayed behind
C23_Witness ==
    /\ lastOp.op = "get_outbox_items" /\ lastOp.limit = 2
    /\ Len(lastOp.res) = 1
    /\ lastOp.res[1].entity_type = PARSE_TYPE_MESSAGE /\ lastOp.res[1].attempts # Null
    /\ \E o \in FreshMessageItems : o.added_time < now /\ o.mc_seqno # Null

\* C24: on every Message row of every graph that ingestion has stored,
\* get_originated_msg_id returns, raises no assertion, and returns the msg_id
\* of a row without out_tx_id
C24_WalkReachesOrigin ==
    lastOp.op = "get_originated_msg_id" =>
        /\ lastOp.res.status = "ok"
        /\ Row(lastOp.res.msg_id).out_tx_id = Null

\* C25: no batch ingestion replaces the in_tx_id or the out_tx_id a persisted
\* Message row already has, also when another row of the same hash is
\* resolved by the batch
C25_SetSideKept ==
    [][lastOp'.op = "insert_by_seqno_core" =>
          \A r \in message_t : \A x \in message_t' :
             x.msg_id = r.msg_id =>
                /\ r.in_tx_id # Null => x.in_tx_id = r.in_tx_id
                /\ r.out_tx_id # Null => x.out_tx_id = r.out_tx_id]_vars

\* every hash of the batch occurs at most once on each side
OncePerSide(batch) ==
    \A h \in BatchHashes(batch) :
        Cardinality(InRecs(batch, h)) <= 1 /\ Cardinality(OutRecs(batch, h)) <= 1

\* C26: a batch that holds every hash at most once on the inbound side and at
\* most once on the outbound side does not abort on an assertion of the
\* resolver, whatever rows earlier batches have persisted
C26_NoAssertWithoutDuplicates ==
    \A batch \in GraphBatches :
        (OncePerSide(batch) /\ Cardinality(transaction_t) + Len(ValidTxs(batch)) <= MaxGraphTx)
            => Body(Tables, batch, 0).status # "AssertionError"

\* C27: when every transaction carries at most one inbound message, no two
\* Message rows have the same non-null in_tx_id
C27_OneInboundRowPerTx ==
    \A r1, r2 \in message_t :
        (r1.in_tx_id # Null /\ r1.in_tx_id = r2.in_tx_id) => r1 = r2

====
